---- MODULE Spec2Model ----
(***************************************************************************)
(* Type deduction as exercised by the snippets of cpp_effective_modern:    *)
(* template type deduction (deducing_types/template_type_deduction01.cpp,  *)
(* template_type_deduction02.cpp), auto type deduction                     *)
(* (deducing_types/auto_type_deduction01.cpp) and decltype(auto)           *)
(* (deducing_types/understand_decltype01.cpp).                             *)
(*                                                                         *)
(* A type is a record                                                      *)
(*   kind    : "scalar" | "ptr" | "array" | "func" | "initlist"            *)
(*             ("brace" for a braced initializer, which has no type,       *)
(*              "fails" for a failed deduction, "none" for no result yet)  *)
(*   base    : tag of the object type, of the element type, of the         *)
(*             pointed-to type or the signature of the function            *)
(*   c, v    : const / volatile of the type itself; for an array these are *)
(*             the qualifiers of its elements (const char[13] is const)    *)
(*   pointee : for a pointer, "object" or "func"; otherwise "none"         *)
(*   pc, pv  : for a pointer to object, const / volatile of the pointed-to *)
(*             object                                                      *)
(*   n       : for an array, its number of elements; otherwise 0           *)
(*   ref     : "none" | "lvalue" | "rvalue"                                *)
(***************************************************************************)
EXTENDS Integers, Sequences, FiniteSets, TLC

VARIABLES form, init, result, pc, n3922

(* The run of a snippet:                                                   *)
(*   prog   : the snippet that runs ("none" while only a type is deduced)  *)
(*   status : "running" | "done" | "aborted" (a failed assert) |           *)
(*            "crashed" (undefined behaviour that ended the run)           *)
(*   ip     : the position in the snippet (the call of main, the           *)
(*            declaration)                                                 *)
(*   stmt   : the statement of the called function's body, 0 outside it    *)
(*   typeT  : the type deduced for T in the current call                   *)
(*   trace  : the calls made and the lines printed so far                  *)
(*   ret    : the value returned                                           *)
(*   sizes  : the number of elements of keyVals, mappedVals, mappedVals2   *)
(*   args   : variant, container and index of a call of authAndAccess      *)
(*   locals : the other objects of the snippet that runs, by name          *)
VARIABLES prog, status, ip, stmt, typeT, trace, ret, sizes, args, locals

deduceVars == <<form, init, result, pc, n3922>>

runVars == <<prog, status, ip, stmt, typeT, trace, ret, sizes, args, locals>>

vars == <<form, init, result, pc, n3922, prog, status, ip, stmt, typeT, trace,
          ret, sizes, args, locals>>

----------------------------------------------------------------------------
(* Bounds of the model. *)

MaxArraySize == 2

MaxBraceLen == 3

(* Size of name: the string literal "R. N. Briggs" plus its terminator. *)
NameSize == 13

ObjBases == {"int", "char", "Widget"}

FuncSigs == {"void(int,double)"}

ElemTags == {"int", "double", "const char*"}

ArraySizes == (1..MaxArraySize) \cup {NameSize}

----------------------------------------------------------------------------
(* Types. *)

MkType(kind, base, c, v, pointee, pcq, pvq, n, ref) ==
    [kind |-> kind, base |-> base, c |-> c, v |-> v, pointee |-> pointee,
     pc |-> pcq, pv |-> pvq, n |-> n, ref |-> ref]

Scalar(base, c, v, ref) ==
    MkType("scalar", base, c, v, "none", FALSE, FALSE, 0, ref)

PtrToObj(base, pcq, pvq, c, v, ref) ==
    MkType("ptr", base, c, v, "object", pcq, pvq, 0, ref)

PtrToFunc(sig, c, v, ref) ==
    MkType("ptr", sig, c, v, "func", FALSE, FALSE, 0, ref)

Array(base, c, v, n, ref) ==
    MkType("array", base, c, v, "none", FALSE, FALSE, n, ref)

Func(sig, ref) ==
    MkType("func", sig, FALSE, FALSE, "none", FALSE, FALSE, 0, ref)

InitList(elem, c, ref) ==
    MkType("initlist", elem, c, FALSE, "none", FALSE, FALSE, 0, ref)

BraceList == MkType("brace", "", FALSE, FALSE, "none", FALSE, FALSE, 0, "none")

Fails(err) == MkType("fails", err, FALSE, FALSE, "none", FALSE, FALSE, 0, "none")

NoResult == MkType("none", "", FALSE, FALSE, "none", FALSE, FALSE, 0, "none")

(* An initializing expression: its type, its value category and, for a     *)
(* braced initializer, the types of its elements.                          *)
Expr(type, cat) == [type |-> type, valueCategory |-> cat, elems |-> <<>>]

Braced(elems) == [type |-> BraceList, valueCategory |-> "rvalue", elems |-> elems]

----------------------------------------------------------------------------
(* The declarations of the snippets. *)

x == Expr(Scalar("int", FALSE, FALSE, "none"), "lvalue")

cx == Expr(Scalar("int", TRUE, FALSE, "none"), "lvalue")

rx == Expr(Scalar("int", TRUE, FALSE, "lvalue"), "lvalue")

px == Expr(PtrToObj("int", TRUE, FALSE, FALSE, FALSE, "none"), "lvalue")

ptr == Expr(PtrToObj("char", TRUE, FALSE, TRUE, FALSE, "none"), "lvalue")

addr_x == Expr(PtrToObj("int", FALSE, FALSE, FALSE, FALSE, "none"), "rvalue")

lit27 == Expr(Scalar("int", FALSE, FALSE, "none"), "rvalue")

name == Expr(Array("char", TRUE, FALSE, NameSize, "none"), "lvalue")

someFunc == Expr(Func("void(int,double)", "none"), "lvalue")

cw == Expr(Scalar("Widget", TRUE, FALSE, "lvalue"), "lvalue")

----------------------------------------------------------------------------
(* The bounded set of initializers. *)

Bool == {TRUE, FALSE}

(* Reference-ness of the expression's declared type and its value          *)
(* category: a name is an lvalue whatever its declared type (x, rx, a      *)
(* named rvalue reference); a temporary (27, &x) is an rvalue of           *)
(* non-reference type and std::move(name) an rvalue of type T&&.           *)
ObjRefCats ==
    {<<"none", "lvalue">>, <<"none", "rvalue">>, <<"lvalue", "lvalue">>,
     <<"rvalue", "lvalue">>, <<"rvalue", "rvalue">>}

(* An expression that names a function is an lvalue. *)
FuncRefCats == {<<"none", "lvalue">>, <<"lvalue", "lvalue">>}

(* struct Widget is the class type among the object types. *)
ClassBases == {"Widget"}

(* A temporary of non-class type is never const or volatile, and no        *)
(* temporary is an array.                                                  *)
IsExpression(e) ==
    (e.valueCategory = "rvalue" /\ e.type.ref = "none") =>
        /\ e.type.kind # "array"
        /\ \/ (e.type.base \in ClassBases /\ e.type.kind = "scalar")
           \/ (~e.type.c /\ ~e.type.v)

ScalarExprs ==
    {e \in {Expr(Scalar(b, c, v, rc[1]), rc[2]) :
                b \in ObjBases, c \in Bool, v \in Bool, rc \in ObjRefCats} :
        IsExpression(e)}

PtrExprs ==
    {e \in {Expr(PtrToObj(b, q[1], q[2], c, FALSE, rc[1]), rc[2]) :
                b \in ObjBases, q \in Bool \X Bool, c \in Bool,
                rc \in ObjRefCats}
           \cup
           {Expr(PtrToFunc(s, c, FALSE, rc[1]), rc[2]) :
                s \in FuncSigs, c \in Bool, rc \in ObjRefCats} :
        IsExpression(e)}

ArrayExprs ==
    {e \in {Expr(Array(b, c, v, n, rc[1]), rc[2]) :
                b \in ObjBases, c \in Bool, v \in Bool, n \in ArraySizes,
                rc \in ObjRefCats} :
        IsExpression(e)}

FuncExprs == {Expr(Func(s, rc[1]), rc[2]) : s \in FuncSigs, rc \in FuncRefCats}

BraceLists ==
    {Braced(es) : es \in UNION {[1..k -> ElemTags] : k \in 1..MaxBraceLen}}

Exprs == ScalarExprs \cup PtrExprs \cup ArrayExprs \cup FuncExprs

Initializers == Exprs \cup BraceLists

IsBraceList(i) == i.type.kind = "brace"

----------------------------------------------------------------------------
(* Type transformations used by the deduction rules. *)

(* "if expr's type is a reference, ignore the reference part" *)
remove_reference(t) == [t EXCEPT !.ref = "none"]

(* "expr is const, ignore that too. If it is volatile, also ignore that" *)
remove_cv(t) == [t EXCEPT !.c = FALSE, !.v = FALSE]

remove_const(t) == [t EXCEPT !.c = FALSE]

(* add_const, wrongly making a function type const as well. *)
add_const_QualifiesFunctions(t) == [t EXCEPT !.c = TRUE]

(* const applied to a function type has no effect. *)
add_const(t) == IF t.kind = "func" THEN t ELSE [t EXCEPT !.c = TRUE]

add_lvalue_reference(t) == [t EXCEPT !.ref = "lvalue"]

add_rvalue_reference(t) == [t EXCEPT !.ref = "rvalue"]

(* T* for an object or function type T. *)
add_pointer(t) ==
    IF t.kind = "func"
    THEN PtrToFunc(t.base, FALSE, FALSE, "none")
    ELSE PtrToObj(t.base, t.c, t.v, FALSE, FALSE, "none")

(* The T of a pointer type T*. *)
remove_pointer(t) ==
    IF t.pointee = "func"
    THEN Func(t.base, "none")
    ELSE Scalar(t.base, t.pc, t.pv, "none")

(* decay, wrongly keeping the const and volatile of a copied argument. *)
decay_KeepsQualifiers(t) ==
    IF t.kind = "array"
    THEN PtrToObj(t.base, t.c, t.v, FALSE, FALSE, "none")
    ELSE IF t.kind = "func"
    THEN PtrToFunc(t.base, FALSE, FALSE, "none")
    ELSE t

(* decay, wrongly leaving arrays and functions as they are. *)
decay_NoDecay(t) ==
    IF t.kind \in {"array", "func"} THEN t ELSE remove_cv(t)

(* Array-to-pointer and function-to-pointer decay of a non-reference       *)
(* argument; any other argument is copied, so its own const and volatile   *)
(* are ignored.                                                            *)
decay(t) ==
    IF t.kind = "array"
    THEN PtrToObj(t.base, t.c, t.v, FALSE, FALSE, "none")
    ELSE IF t.kind = "func"
    THEN PtrToFunc(t.base, FALSE, FALSE, "none")
    ELSE remove_cv(t)

----------------------------------------------------------------------------
(* Template type deduction.  For a call f(expr) of                         *)
(*     template<typename T> void f(ParamType param);                       *)
(* each rule gives the two deduced types, T and ParamType.                 *)

Deduced(T, P) == [T |-> T, ParamType |-> P]

CannotDeduce == Deduced(Fails("CannotDeduceT"), Fails("CannotDeduceT"))

(* f_copy, wrongly taking a braced list for a std::initializer_list. *)
f_copy_AcceptsBracedList(expr) ==
    IF IsBraceList(expr)
    THEN Deduced(InitList(expr.elems[1], FALSE, "none"),
                 InitList(expr.elems[1], FALSE, "none"))
    ELSE LET T == decay(remove_reference(expr.type))
         IN  Deduced(T, T)

(* Case 3, template<typename T> void f_copy(T param): ignore the           *)
(* reference part, then const and volatile; arrays and functions decay.    *)
f_copy(expr) ==
    IF IsBraceList(expr) THEN CannotDeduce
    ELSE LET T == decay(remove_reference(expr.type))
         IN  Deduced(T, T)

(* f_ref, wrongly dropping const from T as f_const_ref does. *)
f_ref_DropsConst(expr) ==
    IF IsBraceList(expr) THEN CannotDeduce
    ELSE LET T == remove_const(remove_reference(expr.type))
         IN  Deduced(T, add_lvalue_reference(T))

(* Case 1, template<typename T> void f_ref(T& param): ignore the           *)
(* reference part, then pattern-match against T&.                          *)
f_ref(expr) ==
    IF IsBraceList(expr) THEN CannotDeduce
    ELSE LET T == remove_reference(expr.type)
         IN  Deduced(T, add_lvalue_reference(T))

(* f_const_ref, wrongly letting arrays and functions decay. *)
f_const_ref_Decays(expr) ==
    IF IsBraceList(expr) THEN CannotDeduce
    ELSE LET T == decay(remove_reference(expr.type))
         IN  Deduced(T, add_lvalue_reference(add_const(T)))

(* f_const_ref, wrongly deducing the const of the argument as part of T. *)
f_const_ref_KeepsConstInT(expr) ==
    IF IsBraceList(expr) THEN CannotDeduce
    ELSE LET T == remove_reference(expr.type)
         IN  Deduced(T, add_lvalue_reference(add_const(T)))

(* Case 1, template<typename T> void f_const_ref(const T& param): const is *)
(* no longer deduced as part of T.                                         *)
f_const_ref(expr) ==
    IF IsBraceList(expr) THEN CannotDeduce
    ELSE LET T == remove_const(remove_reference(expr.type))
         IN  Deduced(T, add_lvalue_reference(add_const(T)))

(* f_ptr, wrongly keeping the const of the pointer itself. *)
f_ptr_KeepsPointerConst(expr) ==
    IF IsBraceList(expr) THEN CannotDeduce
    ELSE LET A == decay_KeepsQualifiers(remove_reference(expr.type))
         IN  IF A.kind # "ptr" THEN CannotDeduce
             ELSE Deduced(remove_pointer(A), A)

(* f_ptr, wrongly recovering from an argument that is no pointer by        *)
(* taking its address.                                                     *)
f_ptr_RecoversFromNonPointer(expr) ==
    IF IsBraceList(expr) THEN CannotDeduce
    ELSE LET A == decay(remove_reference(expr.type))
         IN  IF A.kind # "ptr" THEN Deduced(A, add_pointer(A))
             ELSE Deduced(remove_pointer(A), A)

(* Case 1, template<typename T> void f_ptr(T* param): the argument is      *)
(* passed by value (arrays and functions decay, the pointer's own const is *)
(* ignored) and matched against T*.                                        *)
f_ptr(expr) ==
    IF IsBraceList(expr) THEN CannotDeduce
    ELSE LET A == decay(remove_reference(expr.type))
         IN  IF A.kind # "ptr" THEN CannotDeduce
             ELSE Deduced(remove_pointer(A), A)

(* Case 1, template<typename T> void f_const_ptr(const T* param): const T  *)
(* matches a pointed-to object; a function type does not match const T     *)
(* (g++ rejects f_const_ptr(someFunc): no matching function).              *)
f_const_ptr(expr) ==
    IF IsBraceList(expr) THEN CannotDeduce
    ELSE LET A == decay(remove_reference(expr.type))
         IN  IF A.kind # "ptr" \/ A.pointee = "func" THEN CannotDeduce
             ELSE LET T == remove_const(remove_pointer(A))
                  IN  Deduced(T, add_pointer(add_const(T)))

(* f_univ_ref, wrongly treating an lvalue as an rvalue. *)
f_univ_ref_AlwaysRvalue(expr) ==
    IF IsBraceList(expr) THEN CannotDeduce
    ELSE LET A == remove_reference(expr.type)
         IN  Deduced(A, add_rvalue_reference(A))

(* f_univ_ref, wrongly applying the by-value rule to an rvalue. *)
f_univ_ref_StripsQualifiers(expr) ==
    IF IsBraceList(expr) THEN CannotDeduce
    ELSE LET A == remove_reference(expr.type)
         IN  IF expr.valueCategory = "lvalue"
             THEN Deduced(add_lvalue_reference(A), add_lvalue_reference(A))
             ELSE Deduced(remove_cv(A), add_rvalue_reference(remove_cv(A)))

(* f_univ_ref, wrongly binding an rvalue by value. *)
f_univ_ref_ByValueForRvalue(expr) ==
    IF IsBraceList(expr) THEN CannotDeduce
    ELSE LET A == remove_reference(expr.type)
         IN  IF expr.valueCategory = "lvalue"
             THEN Deduced(add_lvalue_reference(A), add_lvalue_reference(A))
             ELSE Deduced(A, A)

(* Case 2, template<typename T> void f_univ_ref(T&& param): for an lvalue  *)
(* both T and ParamType are lvalue references; for an rvalue the Case 1    *)
(* rules apply.                                                            *)
f_univ_ref(expr) ==
    IF IsBraceList(expr) THEN CannotDeduce
    ELSE LET A == remove_reference(expr.type)
         IN  IF expr.valueCategory = "lvalue"
             THEN Deduced(add_lvalue_reference(A), add_lvalue_reference(A))
             ELSE Deduced(A, add_rvalue_reference(A))

----------------------------------------------------------------------------
(* The declared forms of a binding. *)

TemplateForms ==
    {"ByValue", "LvalueRef", "ConstLvalueRef", "UniversalRef", "Pointer",
     "ConstPointer"}

AutoForms ==
    {"AutoPlain", "AutoLvalueRef", "AutoConstLvalueRef", "AutoUniversalRef",
     "AutoBraced"}

Forms == TemplateForms \cup AutoForms \cup {"DecltypeAuto"}

(* The type deduced for T depends on the form of ParamType. *)
template_deduce(f, expr) ==
    CASE f = "ByValue"        -> f_copy(expr)
      [] f = "LvalueRef"      -> f_ref(expr)
      [] f = "ConstLvalueRef" -> f_const_ref(expr)
      [] f = "UniversalRef"   -> f_univ_ref(expr)
      [] f = "Pointer"        -> f_ptr(expr)
      [] f = "ConstPointer"   -> f_const_ptr(expr)

(* ConceptualTemplate, wrongly pairing auto& with the by-value template. *)
ConceptualTemplate_RefAsByValue(f) ==
    CASE f = "AutoPlain"          -> "ByValue"
      [] f = "AutoLvalueRef"      -> "ByValue"
      [] f = "AutoConstLvalueRef" -> "ConstLvalueRef"
      [] f = "AutoUniversalRef"   -> "UniversalRef"
      [] f = "AutoBraced"         -> "ByValue"

(* auto plays the role of T and the type specifier of the variable acts as *)
(* ParamType: the conceptual template of each auto declaration.            *)
ConceptualTemplate(f) ==
    CASE f = "AutoPlain"          -> "ByValue"
      [] f = "AutoLvalueRef"      -> "LvalueRef"
      [] f = "AutoConstLvalueRef" -> "ConstLvalueRef"
      [] f = "AutoUniversalRef"   -> "UniversalRef"
      [] f = "AutoBraced"         -> "ByValue"

Homogeneous(elems) == \A k \in 1..Len(elems) : elems[k] = elems[1]

(* auto_braced, wrongly deducing the element type from a one-element list. *)
auto_braced_SingleElementUnwrapped(f, elems) ==
    IF Len(elems) = 0 THEN Fails("CannotDeduceT")
    ELSE IF Len(elems) = 1 THEN Scalar(elems[1], FALSE, FALSE, "none")
    ELSE IF ~Homogeneous(elems) THEN Fails("AmbiguousInitializerList")
    ELSE InitList(elems[1], f = "AutoConstLvalueRef",
                  IF f \in {"AutoPlain", "AutoBraced"} THEN "none"
                  ELSE IF f = "AutoUniversalRef" THEN "rvalue" ELSE "lvalue")

(* auto_braced, wrongly accepting a list of elements of several types. *)
auto_braced_TakesFirstElement(f, elems) ==
    IF Len(elems) = 0 THEN Fails("CannotDeduceT")
    ELSE InitList(elems[1], f = "AutoConstLvalueRef",
                  IF f \in {"AutoPlain", "AutoBraced"} THEN "none"
                  ELSE IF f = "AutoUniversalRef" THEN "rvalue" ELSE "lvalue")

(* A braced initializer of an auto-declared variable: auto stands for      *)
(* std::initializer_list<T>, and T is deduced from the elements.  For      *)
(* auto x{ ... } this is what the snippet documents (x24); a compiler that *)
(* implements N3922 (g++ 5 and later, at every -std) instead deduces the   *)
(* type of the single element and rejects any other number of elements.    *)
auto_braced(f, elems) ==
    IF Len(elems) = 0 THEN Fails("CannotDeduceT")
    ELSE IF f = "AutoBraced" /\ n3922
    THEN IF Len(elems) = 1
         THEN Scalar(elems[1], FALSE, FALSE, "none")
         ELSE Fails("NotExactlyOneElement")
    ELSE IF ~Homogeneous(elems) THEN Fails("AmbiguousInitializerList")
    ELSE CASE f \in {"AutoPlain", "AutoBraced"} ->
                InitList(elems[1], FALSE, "none")
           [] f = "AutoLvalueRef" -> InitList(elems[1], FALSE, "lvalue")
           [] f = "AutoConstLvalueRef" -> InitList(elems[1], TRUE, "lvalue")
           [] f = "AutoUniversalRef" -> InitList(elems[1], FALSE, "rvalue")

(* auto type deduction is template type deduction, except for a braced     *)
(* initializer.                                                            *)
auto_deduce(f, i) ==
    IF IsBraceList(i) \/ f = "AutoBraced"
    THEN auto_braced(f, i.elems)
    ELSE template_deduce(ConceptualTemplate(f), i).ParamType

(* templ_func_with_init_list(std::initializer_list<T> initList): T is the  *)
(* type of the elements of the braced list.                                *)
templ_func_with_init_list(expr) ==
    IF IsBraceList(expr) /\ Len(expr.elems) > 0 /\ Homogeneous(expr.elems)
    THEN Deduced(Scalar(expr.elems[1], FALSE, FALSE, "none"),
                 InitList(expr.elems[1], FALSE, "none"))
    ELSE CannotDeduce

(* decltype_auto, wrongly applying the auto rules (reference and           *)
(* qualifiers stripped, arrays and functions decayed).                     *)
decltype_auto_AsAuto(i) ==
    IF IsBraceList(i) THEN Fails("CannotDeduceT")
    ELSE decay(remove_reference(i.type))

(* decltype(auto) v = expr: the decltype rules give the type of expr as    *)
(* it is.                                                                  *)
decltype_auto(i) ==
    IF IsBraceList(i) THEN Fails("CannotDeduceT") ELSE i.type

(* The deduced type of the binding declared with form f and initialized    *)
(* with i.                                                                 *)
deduce(f, i) ==
    IF f \in TemplateForms THEN template_deduce(f, i).ParamType
    ELSE IF f \in AutoForms THEN auto_deduce(f, i)
    ELSE decltype_auto(i)

----------------------------------------------------------------------------
(* One query: a (form, initializer) pair is constructed, and its type is   *)
(* deduced in a single step.                                               *)

(* auto x{ ... } is the form whose initializer is a braced list. *)
Queries ==
    {q \in Forms \X Initializers : q[1] = "AutoBraced" => IsBraceList(q[2])}

(* The build: whether the compiler implements N3922. *)
Builds == {TRUE, FALSE}

NoSizes == [keyVals |-> 0, mappedVals |-> 0, mappedVals2 |-> 0]

NoArgs == [variant |-> 0, c |-> <<>>, i |-> 0]

NoLocals == <<>>

(* No snippet runs. *)
NoRun ==
    /\ prog = "none"
    /\ status = "done"
    /\ ip = 0
    /\ stmt = 0
    /\ typeT = NoResult
    /\ trace = <<>>
    /\ ret = 0
    /\ sizes = NoSizes
    /\ args = NoArgs
    /\ locals = NoLocals

Init ==
    /\ \E q \in Queries : form = q[1] /\ init = q[2]
    /\ result = NoResult
    /\ pc = "ready"
    /\ n3922 \in Builds
    /\ NoRun

Deduce ==
    /\ pc = "ready"
    /\ result' = deduce(form, init)
    /\ pc' = "done"
    /\ UNCHANGED <<form, init, n3922>>
    /\ UNCHANGED runVars

Next == Deduce

Spec == Init /\ [][Next]_vars

----------------------------------------------------------------------------
(* The runs of the snippets: main of template_type_deduction01, arraySize  *)
(* and the arrays declared with it, and the variants of authAndAccess.     *)

MaxContainerLen == 2

ContainerValues == {0, 1}

(* The type traits the templates assert and print. *)
is_pointer(t) == t.kind = "ptr" /\ t.ref = "none"

is_reference(t) == t.ref # "none"

is_const(t) == t.c /\ t.ref = "none"

is_volatile(t) == t.v /\ t.ref = "none"

Trait(trait, t) ==
    CASE trait = "is_pointer"   -> is_pointer(t)
      [] trait = "is_reference" -> is_reference(t)
      [] trait = "is_const"     -> is_const(t)
      [] trait = "is_volatile"  -> is_volatile(t)

(* assert(trait<T>::value == false) and std::cout << trait<T>::value. *)
AssertNot(trait) == [kind |-> "assert", trait |-> trait]

PrintTrait(trait) == [kind |-> "print", trait |-> trait]

(* The bodies of the function templates. *)
Body(fn) ==
    CASE fn = "f_ref" ->
           <<AssertNot("is_pointer"), AssertNot("is_reference"),
             PrintTrait("is_const")>>
      [] fn = "f_const_ref" ->
           <<AssertNot("is_pointer"), AssertNot("is_reference"),
             AssertNot("is_const")>>
      [] fn = "f_ptr" ->
           <<AssertNot("is_pointer"), AssertNot("is_reference"),
             PrintTrait("is_const")>>
      [] fn = "f_const_ptr" ->
           <<AssertNot("is_pointer"), AssertNot("is_reference"),
             AssertNot("is_const")>>
      [] fn = "f_univ_ref" ->
           <<AssertNot("is_pointer"), PrintTrait("is_reference"),
             PrintTrait("is_const")>>
      [] fn = "f_copy" ->
           <<AssertNot("is_const"), AssertNot("is_volatile"),
             PrintTrait("is_reference"), PrintTrait("is_pointer")>>

(* The form of ParamType of each function template. *)
FormOf(fn) ==
    CASE fn = "f_ref"       -> "LvalueRef"
      [] fn = "f_const_ref" -> "ConstLvalueRef"
      [] fn = "f_ptr"       -> "Pointer"
      [] fn = "f_const_ptr" -> "ConstPointer"
      [] fn = "f_univ_ref"  -> "UniversalRef"
      [] fn = "f_copy"      -> "ByValue"

CallOf(fn, arg) == [fn |-> fn, arg |-> arg]

(* The calls main makes, in program order. *)
main_calls ==
    <<CallOf("f_ref", x), CallOf("f_ref", cx), CallOf("f_ref", rx),
      CallOf("f_const_ref", x), CallOf("f_const_ref", cx),
      CallOf("f_const_ref", rx),
      CallOf("f_ptr", addr_x), CallOf("f_ptr", px),
      CallOf("f_const_ptr", addr_x), CallOf("f_const_ptr", px),
      CallOf("f_copy", x), CallOf("f_copy", cx), CallOf("f_copy", rx),
      CallOf("f_copy", px), CallOf("f_copy", ptr)>>

Event(ev, what, arg, val) ==
    [ev |-> ev, what |-> what, arg |-> arg, val |-> val]

(* T (&)[N] against an array: T is the element type, N the number of       *)
(* elements.                                                               *)
arraySize_deduce(expr) ==
    LET A == remove_reference(expr.type)
    IN  [T |-> Scalar(A.base, A.c, A.v, "none"),
         N |-> A.n,
         ParamType |-> add_lvalue_reference(A)]

(* arraySize, wrongly leaving the last element out of the count. *)
arraySize_ExcludesLast(expr) == arraySize_deduce(expr).N - 1

(* return N; *)
arraySize(expr) == arraySize_deduce(expr).N

(* int keyVals[] = { 1, 3, 7, 9, 11, 22, 35 }; *)
keyVals_init == <<1, 3, 7, 9, 11, 22, 35>>

keyVals == Expr(Array("int", FALSE, FALSE, Len(keyVals_init), "none"), "lvalue")

(* The arguments arraySize accepts: lvalues of array type. *)
ArrayLvalues == {e \in ArrayExprs : e.valueCategory = "lvalue"}

(* The containers and indices authAndAccess is called with. *)
Containers ==
    UNION {[1..n -> ContainerValues] : n \in 1..MaxContainerLen}

Indices == 0..MaxContainerLen

Variants == 1..5

(* c[i] is an lvalue of the element type. *)
c_i == Expr(Scalar("int", FALSE, FALSE, "lvalue"), "lvalue")

(* Every variant declared with an auto return type. *)
ReturnForm_AlwaysAuto(variant) == "AutoPlain"

(* How the return type is written: auto in authAndAccess2, decltype(c[i])  *)
(* or decltype(auto) in the others.                                        *)
ReturnForm(variant) == IF variant = 2 THEN "AutoPlain" ELSE "DecltypeAuto"

(* The body with the container indexed before the user is authenticated. *)
authAndAccess_AccessFirst(variant) == <<"return c[i]", "authenticateUser">>

(* The statements of authAndAccess1 .. authAndAccess5. *)
authAndAccess(variant) == <<"authenticateUser", "return c[i]">>

InitMain ==
    /\ prog = "main"
    /\ form = FormOf(main_calls[1].fn)
    /\ init = main_calls[1].arg
    /\ ip = 1
    /\ sizes = NoSizes
    /\ args = NoArgs
    /\ locals = NoLocals

InitArraySize ==
    /\ prog = "arraySize"
    /\ form = "LvalueRef"
    /\ init \in ArrayLvalues
    /\ ip = 0
    /\ sizes = NoSizes
    /\ args = NoArgs
    /\ locals = NoLocals

InitArrays ==
    /\ prog = "arrays"
    /\ form = "LvalueRef"
    /\ init = keyVals
    /\ ip = 1
    /\ sizes = NoSizes
    /\ args = NoArgs
    /\ locals = NoLocals

InitAuthAndAccess ==
    /\ prog = "authAndAccess"
    /\ \E variant \in Variants, c \in Containers, i \in Indices :
          /\ args = [variant |-> variant, c |-> c, i |-> i]
          /\ form = ReturnForm(variant)
    /\ init = c_i
    /\ ip = 0
    /\ sizes = NoSizes
    /\ locals = NoLocals

(* Widget w; *)
w == Expr(Scalar("Widget", FALSE, FALSE, "none"), "lvalue")

(* features(w)[5]: a temporary std::vector<bool>::reference. *)
features_w_5 ==
    Expr(Scalar("std::vector<bool>::reference", FALSE, FALSE, "none"), "rvalue")

(* std::vector<bool> features(const Widget& w) *)
features(widget) == <<TRUE, TRUE, FALSE, TRUE, FALSE, TRUE>>

(* bool processWidget(const Widget& w, bool highPriority) *)
processWidget(widget, highPriority) == TRUE

(* operator[], counting the elements from 1. *)
at_CountsFromOne(vec, i) == vec[i]

(* operator[]: element i of a vector, counting from 0. *)
at(vec, i) == vec[i + 1]

(* The objects of namespace scope are zero-initialized before their        *)
(* initializers run.                                                       *)
ZeroInitialized ==
    [highPriority |-> FALSE, res |-> FALSE, highPriority2 |-> "none"]

(* The initializers of use_explicitly_typed_initializer01, in order. *)
InitWidget ==
    /\ prog = "widget"
    /\ ip = 1
    /\ locals = ZeroInitialized

(* processWidget called with any highPriority. *)
InitProcessWidget ==
    /\ prog = "processWidget"
    /\ ip = 2
    /\ \E highPriority \in BOOLEAN :
          locals = [ZeroInitialized EXCEPT !.highPriority = highPriority]

(* std::pair<Key, int>: the key of an element of the map is const. *)
Pair(first, second, constKey) ==
    [first |-> first, second |-> second, constKey |-> constKey]

(* std::unordered_map<std::string, int> m = { {"Dimitar", 1}, {"Mieko", 2} } *)
m_init == ("Dimitar" :> 1) @@ ("Mieko" :> 2)

(* The element of m with key k: a std::pair<const std::string, int>. *)
value_type(map, k) == Pair(k, map[k], TRUE)

(* The orders in which an unordered_map can hold its elements. *)
IterationOrders(map) ==
    {o \in [1..Cardinality(DOMAIN map) -> DOMAIN map] :
        \A j, k \in DOMAIN o : o[j] = o[k] => j = k}

(* The temporary, wrongly made without the mapped value of the element. *)
pair_copy_WithoutMappedValue(p) == Pair(p.first, 0, FALSE)

(* The temporary std::pair<std::string, int> made from an element of m:    *)
(* a copy of its key and of its mapped value.                              *)
pair_copy(p) == Pair(p.first, p.second, FALSE)

(* std::cout << "p.first=" << p.first << ", p.second=" << p.second *)
Printed(loop, p) == [loop |-> loop, first |-> p.first, second |-> p.second]

(* main of prefer_auto_to_explicit_type01 after m is constructed. *)
InitLoops ==
    /\ prog = "loops"
    /\ ip = 1
    /\ \E order \in IterationOrders(m_init) :
          locals = [m |-> m_init, order |-> order, it |-> 1, out |-> <<>>]

(* The ranges [b, e) of a container dwim and dwim2 are called with. *)
Ranges ==
    {r \in [c : Containers \cup {<<>>}, b : Indices, e : Indices] :
        r.b <= r.e /\ r.e <= Len(r.c)}

(* A loop without side effects that does not terminate is undefined        *)
(* behaviour: a build that assumes loops finite (g++ -O2: -ffinite-loops)  *)
(* removes it, another build runs it.                                      *)
FiniteLoopsBuilds == {TRUE, FALSE}

(* dwim(b, e) or dwim2(b, e) is called. *)
InitDwim ==
    /\ prog = "dwim"
    /\ ip = 0
    /\ \E fn \in {"dwim", "dwim2"}, r \in Ranges,
          finiteLoops \in FiniteLoopsBuilds :
          locals = [fn |-> fn, c |-> r.c, b |-> r.b, e |-> r.e,
                    currValue |-> 0, iterations |-> 0,
                    finiteLoops |-> finiteLoops]

DigitChars == <<"0", "1", "2", "3", "4", "5", "6", "7", "8", "9">>

(* The characters operator<< writes for an int. *)
RECURSIVE Decimal(_)
Decimal(n) ==
    IF n < 10 THEN <<DigitChars[n + 1]>>
    ELSE Decimal(n \div 10) \o <<DigitChars[(n % 10) + 1]>>

(* A std::stringstream: the characters not yet read and its state bits. *)
EmptyStream == [buf |-> <<>>, eofbit |-> FALSE, failbit |-> FALSE]

good(stream) == ~stream.eofbit /\ ~stream.failbit

(* stream << i: writes the digits of i, or sets failbit when the stream is *)
(* not good.                                                               *)
insert(stream, i) ==
    IF good(stream) THEN [stream EXCEPT !.buf = @ \o Decimal(i)]
    ELSE [stream EXCEPT !.failbit = TRUE]

(* stream >> str: reads the characters up to the end of the stream, which  *)
(* sets eofbit; reads nothing and sets failbit when the stream is not good *)
(* or holds no character.                                                  *)
extract(stream, str) ==
    IF ~good(stream)
    THEN [stream |-> [stream EXCEPT !.failbit = TRUE], str |-> str]
    ELSE IF stream.buf = <<>>
    THEN [stream |-> [stream EXCEPT !.eofbit = TRUE, !.failbit = TRUE],
          str |-> str]
    ELSE [stream |-> [stream EXCEPT !.buf = <<>>, !.eofbit = TRUE],
          str |-> stream.buf]

(* The condition of the loop, wrongly including 10. *)
for_condition_Inclusive(i) == i <= 10

(* for (int i=1; i<10; ++i) *)
for_condition(i) == i < 10

(* makeStringDeque is entered: res and stream are empty, i is 1. *)
InitMakeStringDeque ==
    /\ prog = "makeStringDeque"
    /\ ip = 0
    /\ locals = [res |-> <<>>, stream |-> EmptyStream, i |-> 1,
                 str |-> <<>>, pushedAt |-> <<>>]

InitRun ==
    /\ \/ InitMain
       \/ InitArraySize
       \/ InitArrays
       \/ InitAuthAndAccess
       \/ /\ (InitWidget \/ InitProcessWidget)
          /\ form = "AutoPlain"
          /\ init = features_w_5
          /\ sizes = NoSizes
          /\ args = NoArgs
       \/ /\ InitMakeStringDeque
          /\ form = "AutoPlain"
          /\ init = Expr(Scalar("std::string", FALSE, FALSE, "lvalue"), "lvalue")
          /\ sizes = NoSizes
          /\ args = NoArgs
       \/ /\ InitDwim
          /\ form = "AutoPlain"
          /\ init = c_i
          /\ sizes = NoSizes
          /\ args = NoArgs
       \/ /\ InitLoops
          /\ form = "AutoConstLvalueRef"
          /\ init = Expr(Scalar("std::pair<const std::string, int>",
                                FALSE, FALSE, "lvalue"), "lvalue")
          /\ sizes = NoSizes
          /\ args = NoArgs
    /\ result = NoResult
    /\ pc = "ready"
    /\ n3922 \in Builds
    /\ status = "running"
    /\ stmt = IF prog \in {"authAndAccess", "dwim", "makeStringDeque"}
              THEN 1 ELSE 0
    /\ typeT = NoResult
    /\ trace = <<>>
    /\ ret = 0

(* main calls the next function template: T is deduced from the argument. *)
CallTemplate ==
    /\ prog = "main" /\ status = "running"
    /\ stmt = 0 /\ ip \in 1..Len(main_calls)
    /\ LET call == main_calls[ip]
           d == template_deduce(FormOf(call.fn), call.arg)
       IN  /\ form' = FormOf(call.fn)
           /\ init' = call.arg
           /\ typeT' = d.T
           /\ result' = d.ParamType
           /\ trace' = Append(trace, Event("call", call.fn, call.arg, FALSE))
    /\ pc' = "done"
    /\ stmt' = 1
    /\ UNCHANGED <<n3922, prog, status, ip, ret, sizes, args, locals>>

(* The next statement of the called template: an assert aborts the run     *)
(* when its trait holds of T, a print writes the trait's value.            *)
Statement ==
    /\ prog = "main" /\ status = "running"
    /\ ip \in 1..Len(main_calls)
    /\ stmt \in 1..Len(Body(main_calls[ip].fn))
    /\ LET call == main_calls[ip]
           s == Body(call.fn)[stmt]
           value == Trait(s.trait, typeT)
       IN  IF s.kind = "assert"
           THEN /\ status' = IF value THEN "aborted" ELSE "running"
                /\ stmt' = IF value THEN stmt ELSE stmt + 1
                /\ trace' = trace
           ELSE /\ trace' = Append(trace, Event("print", s.trait, call.arg, value))
                /\ stmt' = stmt + 1
                /\ status' = status
    /\ UNCHANGED <<deduceVars, prog, ip, typeT, ret, sizes, args, locals>>

(* The called template returns to main. *)
ReturnToMain ==
    /\ prog = "main" /\ status = "running"
    /\ ip \in 1..Len(main_calls)
    /\ stmt = Len(Body(main_calls[ip].fn)) + 1
    /\ stmt' = 0
    /\ ip' = ip + 1
    /\ UNCHANGED <<deduceVars, prog, status, typeT, trace, ret, sizes, args, locals>>

(* return 0; *)
ReturnFromMain ==
    /\ prog = "main" /\ status = "running"
    /\ stmt = 0 /\ ip = Len(main_calls) + 1
    /\ ret' = 0
    /\ status' = "done"
    /\ UNCHANGED <<deduceVars, prog, ip, stmt, typeT, trace, sizes, args, locals>>

(* arraySize(a) for an array a. *)
CallArraySize ==
    /\ prog = "arraySize" /\ status = "running"
    /\ typeT' = arraySize_deduce(init).T
    /\ result' = arraySize_deduce(init).ParamType
    /\ pc' = "done"
    /\ ret' = arraySize(init)
    /\ trace' = Append(trace, Event("call", "arraySize", init, FALSE))
    /\ status' = "done"
    /\ UNCHANGED <<form, init, n3922, prog, ip, stmt, sizes, args, locals>>

(* int keyVals[] = { ... }: the size comes from the braced initializer. *)
DeclareKeyVals ==
    /\ prog = "arrays" /\ status = "running" /\ ip = 1
    /\ sizes' = [sizes EXCEPT !.keyVals = Len(keyVals_init)]
    /\ ip' = 2
    /\ UNCHANGED <<deduceVars, prog, status, stmt, typeT, trace, ret, args, locals>>

(* int mappedVals[arraySize(keyVals)]; *)
DeclareMappedVals ==
    /\ prog = "arrays" /\ status = "running" /\ ip = 2
    /\ typeT' = arraySize_deduce(keyVals).T
    /\ result' = arraySize_deduce(keyVals).ParamType
    /\ pc' = "done"
    /\ ret' = arraySize(keyVals)
    /\ sizes' = [sizes EXCEPT !.mappedVals = arraySize(keyVals)]
    /\ trace' = Append(trace, Event("call", "arraySize", keyVals, FALSE))
    /\ ip' = 3
    /\ UNCHANGED <<form, init, n3922, prog, status, stmt, args, locals>>

(* std::array<int, arraySize(keyVals)> mappedVals2; *)
DeclareMappedVals2 ==
    /\ prog = "arrays" /\ status = "running" /\ ip = 3
    /\ ret' = arraySize(keyVals)
    /\ sizes' = [sizes EXCEPT !.mappedVals2 = arraySize(keyVals)]
    /\ trace' = Append(trace, Event("call", "arraySize", keyVals, FALSE))
    /\ ip' = 4
    /\ status' = "done"
    /\ UNCHANGED <<deduceVars, prog, stmt, typeT, args, locals>>

(* The statement authAndAccess is at. *)
AtStatement(s) ==
    /\ prog = "authAndAccess" /\ status = "running"
    /\ stmt \in 1..Len(authAndAccess(args.variant))
    /\ authAndAccess(args.variant)[stmt] = s

(* authenticateUser(); *)
AuthenticateUser ==
    /\ AtStatement("authenticateUser")
    /\ trace' = Append(trace, Event("call", "authenticateUser", init, FALSE))
    /\ stmt' = stmt + 1
    /\ UNCHANGED <<deduceVars, prog, status, ip, typeT, ret, sizes, args, locals>>

(* The operand of return c[i]: indexing past the end of the container is   *)
(* undefined behaviour, which yields any value or ends the run.            *)
IndexContainer ==
    /\ AtStatement("return c[i]")
    /\ ip = 0
    /\ trace' = Append(trace, Event("index", "c[i]", init, FALSE))
    /\ IF args.i < Len(args.c)
       THEN ret' = args.c[args.i + 1] /\ ip' = 1 /\ status' = status
       ELSE \/ ret' \in ContainerValues /\ ip' = 1 /\ status' = status
            \/ status' = "crashed" /\ ret' = ret /\ ip' = ip
    /\ UNCHANGED <<deduceVars, prog, stmt, typeT, sizes, args, locals>>

(* return c[i]: the function returns, with the return type its             *)
(* declaration deduces.                                                    *)
ReturnFromAuthAndAccess ==
    /\ AtStatement("return c[i]")
    /\ ip = 1
    /\ result' = deduce(form, init)
    /\ pc' = "done"
    /\ trace' = Append(trace, Event("return", "c[i]", init, FALSE))
    /\ status' = "done"
    /\ stmt' = 0
    /\ UNCHANGED <<form, init, n3922, prog, ip, typeT, ret, sizes, args, locals>>

(* The client assigns a new value to what authAndAccess returned: through  *)
(* a reference the element of the container is written, otherwise only the *)
(* returned copy.  A reference obtained by indexing past the end refers to *)
(* no element: writing through it is undefined behaviour, which leaves the *)
(* container as it is, overwrites it, or ends the run.                     *)
AssignToResult ==
    /\ prog = "authAndAccess" /\ status = "done" /\ ip = 1
    /\ \E v \in ContainerValues \ {ret} :
          /\ ret' = v
          /\ IF ~is_reference(result)
             THEN args' = args /\ status' = status
             ELSE IF args.i < Len(args.c)
             THEN /\ args' = [args EXCEPT !.c[args.i + 1] = v]
                  /\ status' = status
             ELSE \/ args' = args /\ status' = status
                  \/ /\ \E c \in Containers :
                           Len(c) = Len(args.c) /\ args' = [args EXCEPT !.c = c]
                     /\ status' = status
                  \/ args' = args /\ status' = "crashed"
    /\ ip' = 2
    /\ UNCHANGED <<deduceVars, prog, stmt, typeT, trace, sizes, locals>>

(* bool highPriority = features(w)[5]: the element of the temporary vector *)
(* is converted to bool before the temporary is destroyed.                 *)
InitHighPriority ==
    /\ prog = "widget" /\ status = "running" /\ ip = 1
    /\ locals' = [locals EXCEPT !.highPriority = at(features(w), 5)]
    /\ ip' = 2
    /\ UNCHANGED <<deduceVars, prog, status, stmt, typeT, trace, ret, sizes,
                   args>>

(* bool res = processWidget(w, highPriority); *)
InitRes ==
    /\ prog \in {"widget", "processWidget"} /\ status = "running" /\ ip = 2
    /\ locals' = [locals EXCEPT !.res = processWidget(w, locals.highPriority)]
    /\ ip' = 3
    /\ status' = IF prog = "widget" THEN "running" ELSE "done"
    /\ trace' = Append(trace, Event("call", "processWidget", w,
                                    locals.highPriority))
    /\ UNCHANGED <<deduceVars, prog, stmt, typeT, ret, sizes, args>>

(* auto highPriority2 = features(w)[5]: a copy of the proxy object, which   *)
(* refers into the temporary vector destroyed at the end of the statement. *)
InitHighPriority2 ==
    /\ prog = "widget" /\ status = "running" /\ ip = 3
    /\ result' = deduce(form, init)
    /\ pc' = "done"
    /\ locals' = [locals EXCEPT !.highPriority2 = "dangling"]
    /\ ip' = 4
    /\ status' = "done"
    /\ UNCHANGED <<form, init, n3922, prog, stmt, typeT, trace, ret, sizes,
                   args>>

(* One iteration of for (const std::pair<std::string, int>& p : m): p is   *)
(* bound to a temporary converted from the element, which is printed and   *)
(* destroyed at the end of the iteration.                                  *)
ExplicitPairIteration ==
    /\ prog = "loops" /\ status = "running" /\ ip = 1
    /\ locals.it <= Len(locals.order)
    /\ LET p == pair_copy(value_type(locals.m, locals.order[locals.it]))
       IN  locals' = [locals EXCEPT !.out = Append(@, Printed(1, p)),
                                    !.it = @ + 1]
    /\ UNCHANGED <<deduceVars, prog, status, ip, stmt, typeT, trace, ret,
                   sizes, args>>

(* One iteration of for (const auto& p : m): p is bound to the element. *)
AutoIteration ==
    /\ prog = "loops" /\ status = "running" /\ ip = 2
    /\ locals.it <= Len(locals.order)
    /\ LET p == value_type(locals.m, locals.order[locals.it])
       IN  locals' = [locals EXCEPT !.out = Append(@, Printed(2, p)),
                                    !.it = @ + 1]
    /\ result' = deduce(form, init)
    /\ pc' = "done"
    /\ UNCHANGED <<form, init, n3922, prog, status, ip, stmt, typeT, trace,
                   ret, sizes, args>>

(* The iterator has reached m.end(): the loop is left. *)
EndRangeFor ==
    /\ prog = "loops" /\ status = "running" /\ ip \in {1, 2}
    /\ locals.it > Len(locals.order)
    /\ locals' = [locals EXCEPT !.it = 1]
    /\ ip' = ip + 1
    /\ UNCHANGED <<deduceVars, prog, status, stmt, typeT, trace, ret, sizes,
                   args>>

(* return 0; *)
ReturnFromLoops ==
    /\ prog = "loops" /\ status = "running" /\ ip = 3
    /\ ret' = 0
    /\ status' = "done"
    /\ UNCHANGED <<deduceVars, prog, ip, stmt, typeT, trace, sizes, args,
                   locals>>

(* while (b != e): the body is entered, or the function returns.  With b   *)
(* != e the loop never ends; where the build assumes it does, the loop is  *)
(* gone and the function returns.                                          *)
WhileTest ==
    /\ prog = "dwim" /\ status = "running" /\ stmt = 1
    /\ IF locals.b # locals.e /\ ~locals.finiteLoops
       THEN stmt' = 2 /\ status' = status
       ELSE stmt' = 0 /\ status' = "done"
    /\ UNCHANGED <<deduceVars, prog, ip, typeT, trace, ret, sizes, args,
                   locals>>

(* currValue = *b, declared with value_type in dwim and auto in dwim2; b    *)
(* is not advanced.  The iterations are counted up to the first.           *)
WhileBody ==
    /\ prog = "dwim" /\ status = "running" /\ stmt = 2
    /\ locals' = [locals EXCEPT !.currValue = locals.c[locals.b + 1],
                                !.iterations = 1]
    /\ result' = IF locals.fn = "dwim2" THEN deduce(form, init)
                 ELSE remove_reference(init.type)
    /\ pc' = "done"
    /\ stmt' = 1
    /\ UNCHANGED <<form, init, n3922, prog, status, ip, typeT, trace, ret,
                   sizes, args>>

(* i<10: the body is entered, or res is returned. *)
ForTest ==
    /\ prog = "makeStringDeque" /\ status = "running" /\ stmt = 1
    /\ IF for_condition(locals.i)
       THEN stmt' = 2 /\ status' = status
       ELSE stmt' = 0 /\ status' = "done"
    /\ UNCHANGED <<deduceVars, prog, ip, typeT, trace, ret, sizes, args,
                   locals>>

(* stream << i; *)
InsertI ==
    /\ prog = "makeStringDeque" /\ status = "running" /\ stmt = 2
    /\ locals' = [locals EXCEPT !.stream = insert(@, locals.i)]
    /\ stmt' = 3
    /\ UNCHANGED <<deduceVars, prog, status, ip, typeT, trace, ret, sizes,
                   args>>

(* std::string str; stream >> str; *)
ExtractStr ==
    /\ prog = "makeStringDeque" /\ status = "running" /\ stmt = 3
    /\ LET r == extract(locals.stream, <<>>)
       IN  locals' = [locals EXCEPT !.stream = r.stream, !.str = r.str]
    /\ stmt' = 4
    /\ UNCHANGED <<deduceVars, prog, status, ip, typeT, trace, ret, sizes,
                   args>>

(* res.push_back(str); and ++i.  pushedAt keeps the i of each push_back. *)
PushBack ==
    /\ prog = "makeStringDeque" /\ status = "running" /\ stmt = 4
    /\ locals' = [locals EXCEPT !.res = Append(@, locals.str),
                                !.pushedAt = Append(@, locals.i),
                                !.i = @ + 1]
    /\ stmt' = 1
    /\ UNCHANGED <<deduceVars, prog, status, ip, typeT, trace, ret, sizes,
                   args>>

NextRun ==
    \/ CallTemplate
    \/ Statement
    \/ ReturnToMain
    \/ ReturnFromMain
    \/ CallArraySize
    \/ DeclareKeyVals
    \/ DeclareMappedVals
    \/ DeclareMappedVals2
    \/ AuthenticateUser
    \/ IndexContainer
    \/ ReturnFromAuthAndAccess
    \/ AssignToResult
    \/ InitHighPriority
    \/ InitRes
    \/ InitHighPriority2
    \/ ExplicitPairIteration
    \/ AutoIteration
    \/ EndRangeFor
    \/ ReturnFromLoops
    \/ WhileTest
    \/ WhileBody
    \/ ForTest
    \/ InsertI
    \/ ExtractStr
    \/ PushBack

SpecRun == InitRun /\ [][NextRun]_vars

(* A snippet that can take a step eventually takes one. *)
SpecRunFair == SpecRun /\ WF_vars(NextRun)

----------------------------------------------------------------------------
(* Properties of the deduction rules. *)

DeducedFor(f) == pc = "done" /\ form = f /\ ~IsBraceList(init)

IsType(t) == t.kind \in {"scalar", "ptr", "array", "func", "initlist"}

(* C2: for every initializing expression, whatever its value category,    *)
(* reference-ness and qualifiers, the ByValue form deduces a type that is  *)
(* not a reference and is neither const nor volatile.                      *)
C2_ByValueStripsRefAndQualifiers ==
    DeducedFor("ByValue") =>
        /\ IsType(result)
        /\ result.ref = "none"
        /\ ~result.c
        /\ ~result.v

(* f_copy(cx): const int deduces to int. *)
C2_Witness ==
    /\ pc = "done" /\ form = "ByValue" /\ init = cx
    /\ result = Scalar("int", FALSE, FALSE, "none")

(* C3: by value (ByValue, and AutoPlain with a non-brace initializer) an   *)
(* array decays to a pointer to its element type and a function to a       *)
(* pointer to function; the size of the array is not part of the result.   *)
C3_ArrayAndFunctionDecayByValue ==
    (pc = "done" /\ form \in {"ByValue", "AutoPlain"}) =>
        /\ init.type.kind = "array" =>
              result = PtrToObj(init.type.base, init.type.c, init.type.v,
                                FALSE, FALSE, "none")
        /\ init.type.kind = "func" =>
              result = PtrToFunc(init.type.base, FALSE, FALSE, "none")
        /\ init.type.kind \in {"array", "func"} => result.n = 0

(* auto arr1 = name: const char[13] deduces to const char*. *)
C3_Witness ==
    /\ pc = "done" /\ form = "AutoPlain" /\ init = name
    /\ result = PtrToObj("char", TRUE, FALSE, FALSE, FALSE, "none")

(* C4: the LvalueRef form ignores the reference-ness of the initializer    *)
(* and deduces an lvalue reference to its type that carries exactly the    *)
(* initializer's const and volatile.                                       *)
C4_LvalueRefKeepsQualifiers ==
    DeducedFor("LvalueRef") =>
        /\ result.ref = "lvalue"
        /\ result.c = init.type.c
        /\ result.v = init.type.v
        /\ result.kind = init.type.kind
        /\ result.base = init.type.base

(* f_ref(rx): const int& deduces const int&. *)
C4_Witness ==
    /\ pc = "done" /\ form = "LvalueRef" /\ init = rx
    /\ result = Scalar("int", TRUE, FALSE, "lvalue")

(* C5 as stated: the ConstLvalueRef form deduces a const lvalue reference  *)
(* for every initializer.                                                  *)
C5_ConstLvalueRefAlwaysConst ==
    DeducedFor("ConstLvalueRef") => (result.ref = "lvalue" /\ result.c)

(* C5, amended: the ConstLvalueRef form deduces an lvalue reference for    *)
(* every initializer, const or not, lvalue or rvalue, and the referenced   *)
(* type is const exactly when it is not a function type.                   *)
C5_ConstLvalueRefConstUnlessFunction ==
    DeducedFor("ConstLvalueRef") =>
        /\ result.ref = "lvalue"
        /\ result.c = (init.type.kind # "func")
        /\ result.v = init.type.v
        /\ result.kind = init.type.kind
        /\ result.base = init.type.base

(* f_const_ref(27): a mutable int rvalue deduces const int&. *)
C5_Witness ==
    /\ pc = "done" /\ form = "ConstLvalueRef" /\ init = lit27
    /\ result = Scalar("int", TRUE, FALSE, "lvalue")

(* C6: for the reference forms LvalueRef, ConstLvalueRef and AutoLvalueRef *)
(* an array or a function does not decay: the result is a reference to the *)
(* array type with the same size, or to the function type with the same    *)
(* signature.                                                              *)
C6_NoDecayForReferenceForms ==
    (/\ pc = "done"
     /\ form \in {"LvalueRef", "ConstLvalueRef", "AutoLvalueRef"}
     /\ init.type.kind \in {"array", "func"}) =>
        /\ result.kind = init.type.kind
        /\ result.base = init.type.base
        /\ result.n = init.type.n
        /\ result.ref = "lvalue"

(* auto& arr2 = name: the deduced type is const char (&)[13]. *)
C6_Witness ==
    /\ pc = "done" /\ form = "AutoLvalueRef" /\ init = name
    /\ result = Array("char", TRUE, FALSE, NameSize, "lvalue")

(* C7: for an lvalue initializer the UniversalRef form deduces an lvalue   *)
(* reference to the initializer's type, qualifiers included.               *)
C7_UniversalRefLvalue ==
    (DeducedFor("UniversalRef") /\ init.valueCategory = "lvalue") =>
        /\ result.ref = "lvalue"
        /\ result.c = init.type.c
        /\ result.v = init.type.v
        /\ result.kind = init.type.kind
        /\ result.base = init.type.base
        /\ result.n = init.type.n

(* f_univ_ref(cx): cx is an lvalue, param's type is const int&. *)
C7_Witness ==
    /\ pc = "done" /\ form = "UniversalRef" /\ init = cx
    /\ result = Scalar("int", TRUE, FALSE, "lvalue")

(* C8 as stated: for an rvalue initializer the UniversalRef form deduces   *)
(* an rvalue reference to the initializer's type with const and volatile   *)
(* stripped as in the ByValue rule.                                        *)
C8_UniversalRefRvalueStripsQualifiers ==
    (DeducedFor("UniversalRef") /\ init.valueCategory = "rvalue") =>
        /\ result.ref = "rvalue"
        /\ ~result.c
        /\ ~result.v
        /\ result.kind = init.type.kind
        /\ result.base = init.type.base

(* C8, amended: for an rvalue initializer the UniversalRef form deduces an *)
(* rvalue reference to the initializer's type with its const and volatile  *)
(* kept, as the reference rule (Case 1 of the source) keeps them.          *)
C8_UniversalRefRvalueKeepsQualifiers ==
    (DeducedFor("UniversalRef") /\ init.valueCategory = "rvalue") =>
        /\ result.ref = "rvalue"
        /\ result.c = init.type.c
        /\ result.v = init.type.v
        /\ result.kind = init.type.kind
        /\ result.base = init.type.base
        /\ result.n = init.type.n

(* f_univ_ref(std::move(cx)): a const int rvalue deduces const int&&. *)
C8_Witness ==
    /\ pc = "done" /\ form = "UniversalRef"
    /\ init = Expr(Scalar("int", TRUE, FALSE, "rvalue"), "rvalue")
    /\ result = Scalar("int", TRUE, FALSE, "rvalue")

(* C9: for the Pointer and ConstPointer forms, and for a pointer passed    *)
(* ByValue, the deduced type is a pointer that is itself neither const nor *)
(* volatile; the qualifiers of the pointed-to object are kept, and         *)
(* ConstPointer makes the pointed-to object const in every case.           *)
C9_PointeeQualifiersKept ==
    LET A == init.type
        toObject == A.kind = "array" \/ (A.kind = "ptr" /\ A.pointee = "object")
        toFunction == A.kind = "func" \/ (A.kind = "ptr" /\ A.pointee = "func")
        pointeeConst == IF A.kind = "array" THEN A.c ELSE A.pc
        pointeeVolatile == IF A.kind = "array" THEN A.v ELSE A.pv
    IN  /\ (pc = "done"
                /\ \/ form = "Pointer" /\ (toObject \/ toFunction)
                   \/ form = "ConstPointer" /\ toObject
                   \/ form = "ByValue" /\ A.kind = "ptr") =>
              /\ result.kind = "ptr"
              /\ result.ref = "none"
              /\ ~result.c
              /\ ~result.v
              /\ result.base = A.base
              /\ result.pointee = IF toObject THEN "object" ELSE "func"
        /\ (pc = "done" /\ toObject
                /\ \/ form = "Pointer"
                   \/ form = "ByValue" /\ A.kind = "ptr") =>
              /\ result.pc = pointeeConst
              /\ result.pv = pointeeVolatile
        /\ (pc = "done" /\ toObject /\ form = "ConstPointer") =>
              /\ result.pc
              /\ result.pv = pointeeVolatile

(* f_copy(ptr): const char* const deduces const char*. *)
C9_Witness ==
    /\ pc = "done" /\ form = "ByValue" /\ init = ptr
    /\ result = PtrToObj("char", TRUE, FALSE, FALSE, FALSE, "none")

(* C10: for an initializer that is not a braced list, each auto form       *)
(* deduces the type its template form deduces.                             *)
C10_AutoAgreesWithTemplate ==
    (pc = "done" /\ ~IsBraceList(init)) =>
        /\ form = "AutoPlain" => result = deduce("ByValue", init)
        /\ form = "AutoLvalueRef" => result = deduce("LvalueRef", init)
        /\ form = "AutoConstLvalueRef" =>
              result = deduce("ConstLvalueRef", init)
        /\ form = "AutoUniversalRef" => result = deduce("UniversalRef", init)

(* auto&& uref2 = cx: the deduced type is const int&. *)
C10_Witness ==
    /\ pc = "done" /\ form = "AutoUniversalRef" /\ init = cx
    /\ result = Scalar("int", TRUE, FALSE, "lvalue")

(* C11: for AutoPlain, AutoLvalueRef, AutoConstLvalueRef and               *)
(* AutoUniversalRef, a braced list whose elements share one type deduces   *)
(* std::initializer_list of that element type, not the type rules 1-3      *)
(* give, and this includes a list of one element such as { 27 }.           *)
C11_BracedListDeducesInitializerList ==
    (/\ pc = "done"
     /\ form \in {"AutoPlain", "AutoLvalueRef", "AutoConstLvalueRef",
                  "AutoUniversalRef"}
     /\ IsBraceList(init)
     /\ \A k \in 1..Len(init.elems) : init.elems[k] = init.elems[1]) =>
        /\ result.kind = "initlist"
        /\ result.base = init.elems[1]

(* auto x23 = { 27 }: the type is std::initializer_list<int>. *)
C11_Witness ==
    /\ pc = "done" /\ form = "AutoPlain" /\ init = Braced(<<"int">>)
    /\ result = InitList("int", FALSE, "none")

(* C12: auto x{ ... } always deduces std::initializer_list of the common   *)
(* element type ({ 1, 2, 3 } gives std::initializer_list<int>), and fails  *)
(* with AmbiguousInitializerList when the elements are not of one type.    *)
C12_AutoBracedDeducesInitializerList ==
    (pc = "done" /\ form = "AutoBraced") =>
        IF \A k \in 1..Len(init.elems) : init.elems[k] = init.elems[1]
        THEN result = InitList(init.elems[1], FALSE, "none")
        ELSE result = Fails("AmbiguousInitializerList")

(* C13: decltype(auto) gives the type of the initializing expression as it *)
(* is: same type, same reference-ness, same const and volatile, no decay   *)
(* (const Widget& stays const Widget&, where auto gives Widget).           *)
C13_DecltypeAutoIsIdentity ==
    DeducedFor("DecltypeAuto") =>
        /\ result.kind = init.type.kind
        /\ result.base = init.type.base
        /\ result.ref = init.type.ref
        /\ result.c = init.type.c
        /\ result.v = init.type.v
        /\ result.pointee = init.type.pointee
        /\ result.pc = init.type.pc
        /\ result.pv = init.type.pv
        /\ result.n = init.type.n

(* decltype(auto) myWidget2 = cw is const Widget&; auto myWidget1 = cw is  *)
(* Widget.                                                                 *)
C13_Witness ==
    /\ pc = "done" /\ form = "DecltypeAuto" /\ init = cw
    /\ result = Scalar("Widget", TRUE, FALSE, "lvalue")
    /\ deduce("AutoPlain", cw) = Scalar("Widget", FALSE, FALSE, "none")

(* The (form, initializer) pairs that are no contract violation: a braced  *)
(* list only with an auto form, and a pointer form only with a pointer, an *)
(* array or a function (const T* only with a pointed-to object).           *)
InContract(f, i) ==
    /\ IsBraceList(i) => f \in AutoForms
    /\ f = "Pointer" => i.type.kind \in {"ptr", "array", "func"}
    /\ f = "ConstPointer" =>
          \/ i.type.kind = "array"
          \/ i.type.kind = "ptr" /\ i.type.pointee = "object"

HeterogeneousList(i) ==
    IsBraceList(i) /\ \E k \in 1..Len(i.elems) : i.elems[k] # i.elems[1]

(* C14: deduction fails with AmbiguousInitializerList exactly when the     *)
(* form is an auto form and the initializer is a braced list whose         *)
(* elements are not all of one type; every other in-contract input         *)
(* deduces a type.                                                         *)
C14_AmbiguousIffHeterogeneousList ==
    pc = "done" =>
        /\ result = Fails("AmbiguousInitializerList")
              <=> (form \in AutoForms /\ HeterogeneousList(init))
        /\ (InContract(form, init) /\ ~HeterogeneousList(init)) =>
              IsType(result)

(* C14 in a build whose compiler does not implement N3922. *)
C14_HoldsWithoutN3922 == n3922 \/ C14_AmbiguousIffHeterogeneousList

(* C15: a braced list passed to the by-value template cannot be deduced,   *)
(* while auto x = { ... } with the same list of one element type deduces   *)
(* std::initializer_list, and a parameter declared                         *)
(* std::initializer_list<T> deduces T as the element type.                 *)
C15_TemplateRejectsBracedList ==
    (pc = "done" /\ form = "ByValue" /\ IsBraceList(init)) =>
        /\ result.kind = "fails"
        /\ ~HeterogeneousList(init) =>
              /\ deduce("AutoPlain", init) =
                    InitList(init.elems[1], FALSE, "none")
              /\ templ_func_with_init_list(init).T =
                    Scalar(init.elems[1], FALSE, FALSE, "none")

(* templ_func({ 11, 23, 9 }): can't deduce type for T. *)
C15_Witness ==
    /\ pc = "done" /\ form = "ByValue"
    /\ init = Braced(<<"int", "int", "int">>)
    /\ result = Fails("CannotDeduceT")
    /\ templ_func_with_init_list(init).ParamType = InitList("int", FALSE, "none")

----------------------------------------------------------------------------
(* Properties of the runs. *)

(* The calls made so far, in the order they were made. *)
CallsMade ==
    LET calls == SelectSeq(trace, LAMBDA e : e.ev = "call")
    IN  [k \in 1..Len(calls) |-> CallOf(calls[k].what, calls[k].arg)]

InTemplate(fns) ==
    /\ prog = "main" /\ stmt > 0
    /\ main_calls[ip].fn \in fns

(* C18: in the run of main no assert aborts; inside f_ref and f_ptr the    *)
(* deduced T is neither a pointer nor a reference, inside f_const_ref and  *)
(* f_const_ptr it is in addition not const, inside f_copy it is neither    *)
(* const nor volatile; the calls are made in program order, and main ends  *)
(* after all fifteen, returning 0.                                         *)
C18_NoAssertionFiresInMain ==
    prog = "main" =>
        /\ status # "aborted"
        /\ InTemplate({"f_ref", "f_ptr", "f_const_ref", "f_const_ptr"}) =>
              IsType(typeT) /\ ~is_pointer(typeT) /\ ~is_reference(typeT)
        /\ InTemplate({"f_const_ref", "f_const_ptr"}) => ~is_const(typeT)
        /\ InTemplate({"f_copy"}) =>
              IsType(typeT) /\ ~is_const(typeT) /\ ~is_volatile(typeT)
        /\ Len(CallsMade) <= Len(main_calls)
        /\ CallsMade = SubSeq(main_calls, 1, Len(CallsMade))
        /\ status = "done" =>
              /\ ret = 0
              /\ Len(CallsMade) = 15
              /\ CallsMade = main_calls

(* main has returned 0 after its fifteen calls; f_ref(cx) printed          *)
(* "T is const: 1" and f_copy(ptr) found T a pointer.                      *)
C18_Witness ==
    /\ prog = "main" /\ status = "done" /\ ret = 0
    /\ Len(CallsMade) = 15
    /\ \E k \in 1..Len(trace) :
          trace[k] = Event("print", "is_const", cx, TRUE)
    /\ trace[Len(trace)] = Event("print", "is_pointer", ptr, TRUE)

(* C19: arraySize of an array of N elements returns N, whatever the        *)
(* element type and its qualifiers; mappedVals and mappedVals2 have as     *)
(* many elements as keyVals, which is 7.                                   *)
C19_ArraySizeReturnsN ==
    /\ (prog = "arraySize" /\ status = "done") =>
          /\ ret = init.type.n
          /\ typeT = Scalar(init.type.base, init.type.c, init.type.v, "none")
    /\ (prog = "arrays" /\ status = "done") =>
          /\ sizes.keyVals = 7
          /\ sizes.mappedVals = sizes.keyVals
          /\ sizes.mappedVals2 = sizes.keyVals

(* arraySize(name) has returned 13. *)
C19_Witness ==
    /\ prog = "arraySize" /\ status = "done"
    /\ init = name
    /\ ret = NameSize

(* The three arrays are declared, each with 7 elements. *)
C19_ArraysWitness ==
    /\ prog = "arrays" /\ status = "done"
    /\ sizes = [keyVals |-> 7, mappedVals |-> 7, mappedVals2 |-> 7]

(* The positions of the trace at which authenticateUser was invoked. *)
Authenticated ==
    {k \in 1..Len(trace) :
        trace[k].ev = "call" /\ trace[k].what = "authenticateUser"}

(* C20: in a call of any variant of authAndAccess, authenticateUser is     *)
(* invoked at most once, is invoked before the container is indexed and    *)
(* before the function returns, and has been invoked exactly once when the *)
(* call has ended.                                                         *)
C20_AuthenticateOnceBeforeAccess ==
    prog = "authAndAccess" =>
        /\ Cardinality(Authenticated) <= 1
        /\ \A k \in 1..Len(trace) :
              trace[k].ev \in {"index", "return"} =>
                  \E j \in Authenticated : j < k
        /\ status \in {"done", "crashed"} => Cardinality(Authenticated) = 1

(* authAndAccess5 has returned c[1] after authenticating and indexing. *)
C20_Witness ==
    /\ prog = "authAndAccess" /\ status = "done"
    /\ args.variant = 5 /\ args.i = 1 /\ Len(args.c) = 2
    /\ ret = args.c[2]
    /\ trace = <<Event("call", "authenticateUser", c_i, FALSE),
                 Event("index", "c[i]", c_i, FALSE),
                 Event("return", "c[i]", c_i, FALSE)>>

(* C21: when the index is in range, a value assigned to the result of      *)
(* authAndAccess1 or authAndAccess3, whose return type is the type of      *)
(* c[i], becomes element i of the container; a value assigned to the       *)
(* result of authAndAccess2, whose return type is that type without the    *)
(* reference, leaves the container unchanged.                              *)
C21_ReferenceWritesThroughCopyDoesNot ==
    [][(/\ prog = "authAndAccess" /\ status = "done"
        /\ ip = 1 /\ ip' = 2
        /\ args.i < Len(args.c)) =>
          /\ args.variant \in {1, 3} =>
                /\ result = init.type
                /\ is_reference(result)
                /\ args'.c = [args.c EXCEPT ![args.i + 1] = ret']
                /\ args'.c # args.c
          /\ args.variant = 2 =>
                /\ result = remove_reference(init.type)
                /\ ~is_reference(result)
                /\ args'.c = args.c]_vars

(* A value was assigned to the result of authAndAccess3 and is now element *)
(* i of the container.                                                     *)
C21_Witness ==
    /\ prog = "authAndAccess" /\ status = "done" /\ ip = 2
    /\ args.variant = 3 /\ args.i < Len(args.c)
    /\ result = c_i.type
    /\ args.c[args.i + 1] = ret

(* A value was assigned to the result of authAndAccess2 and the container  *)
(* still holds another.                                                    *)
C21_CopyWitness ==
    /\ prog = "authAndAccess" /\ status = "done" /\ ip = 2
    /\ args.variant = 2 /\ args.i < Len(args.c)
    /\ result = Scalar("int", FALSE, FALSE, "none")
    /\ args.c[args.i + 1] # ret

(* C22: once initialized, highPriority is element 5 of the six-element     *)
(* vector that features returns, which is true; processWidget returns true *)
(* whatever highPriority is, so res is true once initialized.              *)
C22_HighPriorityAndResAreTrue ==
    /\ Len(features(w)) = 6
    /\ (prog = "widget" /\ ip >= 2) =>
          /\ locals.highPriority = features(w)[6]
          /\ locals.highPriority = TRUE
    /\ (prog \in {"widget", "processWidget"} /\ ip >= 3) =>
          locals.res = TRUE

(* All three objects are initialized: highPriority and res are true. *)
C22_Witness ==
    /\ prog = "widget" /\ status = "done" /\ ip = 4
    /\ locals.highPriority /\ locals.res
    /\ trace = <<Event("call", "processWidget", w, TRUE)>>

(* processWidget(w, false) has returned true. *)
C22_FalseWitness ==
    /\ prog = "processWidget" /\ status = "done"
    /\ ~locals.highPriority /\ locals.res

(* The (key, value) pairs a loop has printed, in order. *)
PrintedBy(loop) ==
    LET lines == SelectSeq(locals.out, LAMBDA l : l.loop = loop)
    IN  [k \in 1..Len(lines) |-> <<lines[k].first, lines[k].second>>]

VisitsEachEntryOnce(printed) ==
    /\ Len(printed) = Cardinality(DOMAIN locals.m)
    /\ \A k \in DOMAIN locals.m :
          Cardinality({j \in 1..Len(printed) :
                          printed[j] = <<k, locals.m[k]>>}) = 1

(* C23: m holds Dimitar -> 1 and Mieko -> 2 throughout; a loop that has     *)
(* ended has printed every entry exactly once; the second loop prints what *)
(* the first printed, in the same order.                                   *)
C23_LoopsPrintTheSameEntries ==
    prog = "loops" =>
        /\ locals.m = m_init
        /\ DOMAIN locals.m = {"Dimitar", "Mieko"}
        /\ locals.m["Dimitar"] = 1 /\ locals.m["Mieko"] = 2
        /\ ip >= 2 => VisitsEachEntryOnce(PrintedBy(1))
        /\ ip >= 3 => VisitsEachEntryOnce(PrintedBy(2))
        /\ Len(PrintedBy(2)) <= Len(PrintedBy(1))
        /\ PrintedBy(2) = SubSeq(PrintedBy(1), 1, Len(PrintedBy(2)))
        /\ status = "done" => PrintedBy(1) = PrintedBy(2)

(* main has returned after both loops printed Mieko before Dimitar. *)
C23_Witness ==
    /\ prog = "loops" /\ status = "done" /\ ret = 0
    /\ PrintedBy(1) = <<(<<"Mieko", 2>>), (<<"Dimitar", 1>>)>>
    /\ PrintedBy(2) = PrintedBy(1)
    /\ result = Scalar("std::pair<const std::string, int>", TRUE, FALSE, "lvalue")

C24_HoldsWithoutFiniteLoops ==
    (prog = "dwim" /\ ~locals.finiteLoops) =>
        /\ status = "done" => locals.b = locals.e
        /\ locals.b # locals.e => status = "running"

(* Neither function assigns to b or e. *)
C24_BAndEUnchanged ==
    [][prog = "dwim" => locals'.b = locals.b /\ locals'.e = locals.e]_vars

(* dwim2 has returned although b # e. *)
C24_ReturnedWithNonEmptyRange ==
    /\ prog = "dwim" /\ status = "done"
    /\ locals.fn = "dwim2" /\ locals.b # locals.e

(* dwim is in its loop after an iteration, b # e. *)
C24_LoopingWitness ==
    /\ prog = "dwim" /\ status = "running"
    /\ locals.fn = "dwim" /\ locals.iterations = 1 /\ stmt = 1
    /\ locals.b # locals.e

(* C25: makeStringDeque pushes one element per iteration, for i = 1, 2,    *)
(* ... in increasing order, never more than 9; when it returns it has made *)
(* exactly 9 iterations and res has exactly 9 elements; and it always      *)
(* returns.                                                                *)
C25_MakeStringDequeReturnsNineElements ==
    /\ [](prog = "makeStringDeque" =>
             /\ Len(locals.res) = Len(locals.pushedAt)
             /\ locals.pushedAt = [k \in 1..(locals.i - 1) |-> k]
             /\ Len(locals.res) <= 9
             /\ status = "done" =>
                   /\ Len(locals.res) = 9
                   /\ locals.pushedAt = <<1, 2, 3, 4, 5, 6, 7, 8, 9>>)
    /\ (prog = "makeStringDeque") ~> (status = "done")

(* makeStringDeque has returned a deque of 9 elements: "1", read before    *)
(* the stream reached its end, and 8 empty strings.                        *)
C25_Witness ==
    /\ prog = "makeStringDeque" /\ status = "done"
    /\ Len(locals.res) = 9
    /\ locals.res[1] = <<"1">>
    /\ \A k \in 2..9 : locals.res[k] = <<>>

(* C26: for the UniversalRef and AutoUniversalRef forms and an initializer *)
(* that is not a braced list, the deduced type is a reference, and it is   *)
(* an lvalue reference for an lvalue initializer and an rvalue reference   *)
(* for an rvalue initializer.                                              *)
C26_UniversalRefMatchesValueCategory ==
    (DeducedFor("UniversalRef") \/ DeducedFor("AutoUniversalRef")) =>
        /\ IsType(result)
        /\ result.ref # "none"
        /\ result.ref = init.valueCategory
        /\ init.valueCategory = "lvalue" => result.ref = "lvalue"
        /\ init.valueCategory = "rvalue" => result.ref = "rvalue"

(* auto&& uref3 = 27: 27 is an rvalue, uref3's type is int&&. *)
C26_Witness ==
    /\ pc = "done" /\ form = "AutoUniversalRef" /\ init = lit27
    /\ result = Scalar("int", FALSE, FALSE, "rvalue")

(* auto&& uref2 = cx: cx is an lvalue, uref2's type is const int&. *)
C26_LvalueWitness ==
    /\ pc = "done" /\ form = "AutoUniversalRef" /\ init = cx
    /\ result = Scalar("int", TRUE, FALSE, "lvalue")

====
